---------------------------- MODULE Spec2Model ----------------------------
(***************************************************************************)
(* Model of html-escape's unquoted-attribute encoder                       *)
(* (src/src/encode/unquoted_attribute.rs).                                 *)
(*                                                                         *)
(* Bytes are the integers 0..255 and a text is the sequence of the bytes   *)
(* of its UTF-8 encoding.  Rust's 0-based text_bytes[i] is text[i + 1]     *)
(* here, and the Rust slice text_bytes[a..b] is Slice(text, a, b).         *)
(*                                                                         *)
(* The three entry points are modelled statement by statement (pc is the   *)
(* position inside the executing function).  A driver passes each input    *)
(* of a session to every entry point in turn: encode_unquoted_attribute,   *)
(* encode_unquoted_attribute_to_vec and encode_unquoted_attribute_to_string *)
(* on the caller's buffer, and encode_unquoted_attribute_to_writer on a    *)
(* sink that may fail on any write call.                                   *)
(***************************************************************************)
EXTENDS Integers, Sequences, FiniteSets

\* Bound: the number of characters a session may pass in, over all its rounds.
MaxChars == 3

VARIABLES
    input,          \* the text of the current round (the `text` argument)
    stage,          \* the driver: "new", "cow", "vec", "string", "writer", "end"
    pc,             \* the statement about to run, "idle" between calls
    caller,         \* who called encode_unquoted_attribute_to_vec: "none", "cow", "string"
    text,           \* text_bytes of the executing function
    p,              \* scan position
    start,          \* start of the pending clean run
    e,              \* the byte read at p
    width,          \* the width classified for e
    current_length, \* output.len() at the entry of encode_unquoted_attribute_to_vec
    buf,            \* the caller's Vec<u8> (the String's bytes for the string variant)
    v,              \* the Vec created by encode_unquoted_attribute
    owned,          \* whether encode_unquoted_attribute created v in this call
    entities,       \* entity writes performed by the current call
    sink,           \* the bytes the writer's sink has accepted in the current call
    writes,         \* write calls issued to the sink in the current call
    sinkErr,        \* 0, or the index of the first write call the sink failed
    res,            \* what each entry point returned in the current round
    buf0,           \* the caller's buffer when the session began
    pre,            \* the caller's buffer at the entry of the current append call
    fed,            \* the texts appended to the caller's buffer so far, in order
    used            \* characters passed in so far

vars == <<input, stage, pc, caller, text, p, start, e, width, current_length,
          buf, v, owned, entities, sink, writes, sinkErr, res, buf0, pre, fed, used>>

----------------------------------------------------------------------------
(* Inputs *)

\* 'a', '&', ' ' and the three-byte character U+20AC.
Alphabet == { <<97>>, <<38>>, <<32>>, <<226, 130, 172>> }

RECURSIVE TextsUpTo(_)
TextsUpTo(n) ==
    IF n <= 0 THEN { <<>> }
    ELSE LET S == TextsUpTo(n - 1) IN S \cup { t \o c : t \in S, c \in Alphabet }

RECURSIVE CharCount(_, _)
CharCount(s, i) ==
    IF i > Len(s) THEN 0
    ELSE IF s[i] >= 128 /\ s[i] <= 191 THEN CharCount(s, i + 1)
    ELSE 1 + CharCount(s, i + 1)

\* Every ASCII character alone, and one character of each multi-byte width.
Singles ==
    { <<b>> : b \in 0..127 }
        \cup { <<195, 169>>, <<226, 130, 172>>, <<240, 159, 152, 128>>,
               <<194, 128>>, <<223, 191>>, <<224, 160, 128>>, <<239, 191, 191>>,
               <<244, 143, 191, 191>> }

\* "a&b", "<<", "100%", "&amp;", "&#x20;", "a'", U+00E9 '<' U+1F600 '"',
\* "x" U+1F600 "9>" U+00E9.
Scenarios ==
    { <<97, 38, 98>>,
      <<60, 60>>,
      <<49, 48, 48, 37>>,
      <<38, 97, 109, 112, 59>>,
      <<38, 35, 120, 50, 48, 59>>,
      <<97, 39>>,
      <<195, 169, 60, 240, 159, 152, 128, 34>>,
      <<120, 240, 159, 152, 128, 57, 62, 195, 169>> }

\* Initial contents of the caller's buffer: empty, the valid text '<' U+00E9
\* (raw, not escaped), and bytes that are no valid text.
InitBuffers == { <<>>, <<60, 195, 169>>, <<38, 195>> }

Slice(s, a, b) == SubSeq(s, a + 1, b)

----------------------------------------------------------------------------
(* Helpers of the crate and of its dependencies *)

\* utf8_width::get_width_assume_valid: the width from the leading byte;
\* 0 stands for the bytes it must not be given (its behaviour is undefined).
get_width_assume_valid(b) ==
    IF b <= 127 THEN 1
    ELSE IF b >= 194 /\ b <= 223 THEN 2
    ELSE IF b >= 224 /\ b <= 239 THEN 3
    ELSE IF b >= 240 /\ b <= 244 THEN 4
    ELSE 0

\* functions::is_alphanumeric
is_alphanumeric(b) ==
    \/ b >= 48 /\ b <= 57
    \/ b >= 65 /\ b <= 90
    \/ b >= 97 /\ b <= 122

to_hex(d) == IF d < 10 THEN 48 + d ELSE 55 + d

\* The bytes functions::write_html_entity_to_vec appends and
\* functions::write_html_entity_to_writer writes for the byte b.
html_entity(b) ==
    IF b = 38 THEN <<38, 97, 109, 112, 59>>
    ELSE IF b = 60 THEN <<38, 108, 116, 59>>
    ELSE IF b = 62 THEN <<38, 103, 116, 59>>
    ELSE IF b = 34 THEN <<38, 113, 117, 111, 116, 59>>
    ELSE <<38, 35, 120, to_hex(b \div 16), to_hex(b % 16), 59>>

\* Whether a byte sequence is well-formed UTF-8 (what str and String require).
RECURSIVE ValidFrom(_, _)
ValidFrom(s, i) ==
    IF i > Len(s) THEN TRUE
    ELSE LET b == s[i]
             cont(j, lo, hi) == j <= Len(s) /\ s[j] >= lo /\ s[j] <= hi
         IN  IF b <= 127 THEN ValidFrom(s, i + 1)
             ELSE IF b >= 194 /\ b <= 223
                  THEN cont(i + 1, 128, 191) /\ ValidFrom(s, i + 2)
             ELSE IF b >= 224 /\ b <= 239
                  THEN /\ cont(i + 1, IF b = 224 THEN 160 ELSE 128,
                                      IF b = 237 THEN 159 ELSE 191)
                       /\ cont(i + 2, 128, 191)
                       /\ ValidFrom(s, i + 3)
             ELSE IF b >= 240 /\ b <= 244
                  THEN /\ cont(i + 1, IF b = 240 THEN 144 ELSE 128,
                                      IF b = 244 THEN 143 ELSE 191)
                       /\ cont(i + 2, 128, 191)
                       /\ cont(i + 3, 128, 191)
                       /\ ValidFrom(s, i + 4)
             ELSE FALSE

IsValidUtf8(s) == ValidFrom(s, 1)

----------------------------------------------------------------------------
(* Results *)

None == [tag |-> "none", bytes |-> <<>>, err |-> 0]
Ret(t, b) == [tag |-> t, bytes |-> b, err |-> 0]
Err(n) == [tag |-> "Err", bytes |-> <<>>, err |-> n]
NoRes == [cow |-> None, vec |-> None, string |-> None, writer |-> None]

\* The buffer encode_unquoted_attribute_to_vec appends to: v when
\* encode_unquoted_attribute called it, the caller's buffer otherwise.
Out == IF caller = "cow" THEN v ELSE buf

Append2Out(bytes) ==
    IF caller = "cow"
    THEN v' = v \o bytes /\ UNCHANGED buf
    ELSE buf' = buf \o bytes /\ UNCHANGED v

----------------------------------------------------------------------------
Init ==
    /\ buf0 \in InitBuffers
    /\ buf = buf0
    /\ input = <<>>
    /\ stage = "new"
    /\ pc = "idle"
    /\ caller = "none"
    /\ text = <<>>
    /\ p = 0
    /\ start = 0
    /\ e = 0
    /\ width = 0
    /\ current_length = 0
    /\ v = <<>>
    /\ owned = FALSE
    /\ entities = 0
    /\ sink = <<>>
    /\ writes = 0
    /\ sinkErr = 0
    /\ res = NoRes
    /\ pre = <<>>
    /\ fed = <<>>
    /\ used = 0

Local == <<caller, text, p, start, e, width, current_length>>
Caller == <<buf, buf0, pre, fed>>
Sink == <<sink, writes, sinkErr>>

\* The driver picks the next input of the session.
NewRound ==
    /\ pc = "idle"
    /\ stage \in {"new", "end"}
    /\ used < MaxChars
    /\ \E t \in TextsUpTo(MaxChars - used)
                \cup (IF used = 0 THEN Singles \cup Scenarios ELSE {}) :
          /\ input' = t
          /\ used' = IF t \in TextsUpTo(MaxChars - used) /\ t # <<>>
                     THEN used + CharCount(t, 1)
                     ELSE IF t = <<>> THEN used + 1 ELSE MaxChars
    /\ stage' = "cow"
    /\ res' = NoRes
    /\ v' = <<>>
    /\ owned' = FALSE
    /\ entities' = 0
    /\ sink' = <<>>
    /\ writes' = 0
    /\ sinkErr' = 0
    /\ UNCHANGED <<pc, Local, Caller>>


\* What every return leaves behind: the callee's locals are gone.
ResetLocal ==
    /\ caller' = "none"
    /\ text' = <<>>
    /\ p' = 0
    /\ start' = 0
    /\ e' = 0
    /\ width' = 0
    /\ current_length' = 0

\* Mutant: the width is not looked at, so leading bytes of multi-byte
\* characters are escaped too.
needs_escape_AnyWidth(b, w) == ~is_alphanumeric(b)

\* Mutant: only the characters reserved in text and quoted attributes are
\* escaped.
needs_escape_Reserved(b, w) == w = 1 /\ b \in {38, 60, 62, 34, 39}

\* The condition of lines 41, 110 and 157.
needs_escape(b, w) == w = 1 /\ ~is_alphanumeric(b)

\* Rust panics on the slice s[a..b] unless a <= b <= s.len().
SliceOk(s, a, b) == a <= b /\ b <= Len(s)

\* Lines 37-43, 106-110 and 153-157: read the byte at p, classify it and
\* branch.  Indexing past the end panics; a byte that starts no character
\* is undefined behaviour of get_width_assume_valid.
Classify(escapePc, advancePc) ==
    IF p >= Len(text)
    THEN pc' = "panic" /\ UNCHANGED <<e, width>>
    ELSE LET b == text[p + 1]
             w == get_width_assume_valid(b)
         IN  /\ e' = b
             /\ width' = w
             /\ pc' = IF w = 0 THEN "ub"
                      ELSE IF needs_escape(b, w) THEN escapePc
                      ELSE advancePc

----------------------------------------------------------------------------
(* encode_unquoted_attribute *)

\* Mutant: the text is copied into an owned String.
cow_from_text_Copy(t) == Ret("Owned", t)

\* Line 34: Cow::from(text) borrows the input.
cow_from_text(t) == Ret("Borrowed", t)

CallCow ==
    /\ pc = "idle"
    /\ stage = "cow"
    /\ text' = input
    /\ p' = 0
    /\ pc' = "c_loop"
    /\ UNCHANGED <<input, stage, caller, start, e, width, current_length, v, owned,
                   entities, Sink, res, Caller, used>>

\* Lines 32-43: `return Cow::from(text)` at the end of the input, else classify.
CowLoopHead ==
    /\ pc = "c_loop"
    /\ IF p = Len(text)
       THEN /\ res' = [res EXCEPT !.cow = cow_from_text(text)]
            /\ pc' = "idle"
            /\ stage' = "vec"
            /\ ResetLocal
       ELSE /\ Classify("c_alloc", "c_adv")
            /\ UNCHANGED <<res, stage, caller, text, p, start, current_length>>
    /\ UNCHANGED <<input, v, owned, entities, Sink, Caller, used>>

\* Line 45.
CowAdvance ==
    /\ pc = "c_adv"
    /\ p' = p + width
    /\ pc' = "c_loop"
    /\ UNCHANGED <<input, stage, caller, text, start, e, width, current_length, v,
                   owned, entities, Sink, res, Caller, used>>

\* Mutant: the clean prefix is not copied.
CowAlloc_NoPrefix ==
    /\ pc = "c_alloc"
    /\ owned' = TRUE
    /\ v' = <<>>
    /\ pc' = "c_entity"
    /\ UNCHANGED <<input, stage, Local, entities, Sink, res, Caller, used>>

\* Lines 48-50.
CowAlloc ==
    /\ pc = "c_alloc"
    /\ IF SliceOk(text, 0, p)
       THEN /\ owned' = TRUE
            /\ v' = Slice(text, 0, p)
            /\ pc' = "c_entity"
       ELSE pc' = "panic" /\ UNCHANGED <<owned, v>>
    /\ UNCHANGED <<input, stage, Local, entities, Sink, res, Caller, used>>

\* Line 52.
CowEntity ==
    /\ pc = "c_entity"
    /\ v' = v \o html_entity(e)
    /\ entities' = entities + 1
    /\ pc' = "c_call"
    /\ UNCHANGED <<input, stage, Local, owned, Sink, res, Caller, used>>

\* Mutant: the rest begins at the escaped byte, not after it.
CowCall_KeepsByte ==
    /\ pc = "c_call"
    /\ IF SliceOk(text, p, Len(text))
       THEN /\ caller' = "cow"
            /\ text' = Slice(text, p, Len(text))
            /\ current_length' = Len(v)
            /\ p' = 0
            /\ start' = 0
            /\ pc' = "v_loop"
       ELSE pc' = "panic" /\ UNCHANGED <<caller, text, current_length, p, start>>
    /\ UNCHANGED <<input, stage, e, width, v, owned, entities, Sink, res, Caller, used>>

\* Lines 54-57 and the entry of the callee (lines 88-99): the rest of the
\* text after the escaped byte is handed on as a str, unchecked.
CowCall ==
    /\ pc = "c_call"
    /\ IF SliceOk(text, p + 1, Len(text))
       THEN /\ caller' = "cow"
            /\ text' = Slice(text, p + 1, Len(text))
            /\ current_length' = Len(v)
            /\ p' = 0
            /\ start' = 0
            /\ pc' = "v_loop"
       ELSE pc' = "panic" /\ UNCHANGED <<caller, text, current_length, p, start>>
    /\ UNCHANGED <<input, stage, e, width, v, owned, entities, Sink, res, Caller, used>>

\* Line 59.
CowReturn ==
    /\ pc = "c_ret"
    /\ res' = [res EXCEPT !.cow = Ret("Owned", v)]
    /\ pc' = "idle"
    /\ stage' = "vec"
    /\ ResetLocal
    /\ UNCHANGED <<input, v, owned, entities, Sink, Caller, used>>

----------------------------------------------------------------------------
(* encode_unquoted_attribute_to_vec and encode_unquoted_attribute_to_string *)

\* Lines 87-99.
CallVec ==
    /\ pc = "idle"
    /\ stage = "vec"
    /\ caller' = "none"
    /\ text' = input
    /\ current_length' = Len(buf)
    /\ pre' = buf
    /\ p' = 0
    /\ start' = 0
    /\ entities' = 0
    /\ pc' = "v_loop"
    /\ UNCHANGED <<input, stage, e, width, buf, v, owned, Sink, res, buf0, fed, used>>

\* Lines 73-74 and 87-99: the String's bytes are the output.
CallString ==
    /\ pc = "idle"
    /\ stage = "string"
    /\ caller' = "string"
    /\ text' = input
    /\ current_length' = Len(buf)
    /\ pre' = buf
    /\ p' = 0
    /\ start' = 0
    /\ entities' = 0
    /\ pc' = "v_loop"
    /\ UNCHANGED <<input, stage, e, width, buf, v, owned, Sink, res, buf0, fed, used>>

\* Lines 101-110.
VecLoopHead ==
    /\ pc = "v_loop"
    /\ IF p = Len(text)
       THEN pc' = "v_tail" /\ UNCHANGED <<e, width>>
       ELSE Classify("v_flush", "v_adv")
    /\ UNCHANGED <<input, stage, caller, text, p, start, current_length, buf, v,
                   owned, entities, Sink, res, buf0, pre, fed, used>>

\* Line 111.
VecFlush ==
    /\ pc = "v_flush"
    /\ IF SliceOk(text, start, p)
       THEN Append2Out(Slice(text, start, p)) /\ pc' = "v_start"
       ELSE pc' = "panic" /\ UNCHANGED <<buf, v>>
    /\ UNCHANGED <<input, stage, Local, owned, entities, Sink, res, buf0, pre, fed, used>>

\* Mutant: the next run begins at the escaped byte.
VecSetStart_KeepsByte ==
    /\ pc = "v_start"
    /\ start' = p
    /\ pc' = "v_entity"
    /\ UNCHANGED <<input, stage, caller, text, p, e, width, current_length, buf, v,
                   owned, entities, Sink, res, Caller, used>>

\* Line 112.
VecSetStart ==
    /\ pc = "v_start"
    /\ start' = p + 1
    /\ pc' = "v_entity"
    /\ UNCHANGED <<input, stage, caller, text, p, e, width, current_length, buf, v,
                   owned, entities, Sink, res, Caller, used>>

\* Line 113.
VecEntity ==
    /\ pc = "v_entity"
    /\ Append2Out(html_entity(e))
    /\ entities' = entities + 1
    /\ pc' = "v_adv"
    /\ UNCHANGED <<input, stage, Local, owned, Sink, res, buf0, pre, fed, used>>

\* Mutant: p advances by one byte whatever the width.
VecAdvance_ByOne ==
    /\ pc = "v_adv"
    /\ p' = p + 1
    /\ pc' = "v_loop"
    /\ UNCHANGED <<input, stage, caller, text, start, e, width, current_length, buf, v,
                   owned, entities, Sink, res, Caller, used>>

\* Line 116.
VecAdvance ==
    /\ pc = "v_adv"
    /\ p' = p + width
    /\ pc' = "v_loop"
    /\ UNCHANGED <<input, stage, caller, text, start, e, width, current_length, buf, v,
                   owned, entities, Sink, res, Caller, used>>

\* Line 119.
VecTail ==
    /\ pc = "v_tail"
    /\ IF SliceOk(text, start, p)
       THEN Append2Out(Slice(text, start, p)) /\ pc' = "v_ret"
       ELSE pc' = "panic" /\ UNCHANGED <<buf, v>>
    /\ UNCHANGED <<input, stage, Local, owned, entities, Sink, res, buf0, pre, fed, used>>

\* Mutant: the whole buffer is returned.
appended_slice_Whole(out, len) == out

\* Line 121: &output[current_length..]
appended_slice(out, len) == Slice(out, len, Len(out))

\* Line 121, and what the caller does with the slice: line 59 follows in
\* encode_unquoted_attribute, line 74 reinterprets it as a str.
VecReturn ==
    /\ pc = "v_ret"
    /\ IF ~SliceOk(Out, current_length, Len(Out))
       THEN pc' = "panic" /\ UNCHANGED <<Local, res, stage, fed>>
       ELSE LET slice == appended_slice(Out, current_length)
            IN  IF caller = "cow"
                THEN /\ pc' = "c_ret"
                     /\ UNCHANGED <<Local, res, stage, fed>>
                ELSE /\ pc' = "idle"
                     /\ res' = IF caller = "string"
                               THEN [res EXCEPT !.string = Ret("str", slice)]
                               ELSE [res EXCEPT !.vec = Ret("slice", slice)]
                     /\ stage' = IF caller = "none" /\ IsValidUtf8(buf)
                                 THEN "string" ELSE "writer"
                     /\ fed' = Append(fed, input)
                     /\ ResetLocal
    /\ UNCHANGED <<input, buf, v, owned, entities, Sink, buf0, pre, used>>

----------------------------------------------------------------------------
(* encode_unquoted_attribute_to_writer *)

\* Lines 135-146.
CallWriter ==
    /\ pc = "idle"
    /\ stage = "writer"
    /\ text' = input
    /\ p' = 0
    /\ start' = 0
    /\ entities' = 0
    /\ sink' = <<>>
    /\ writes' = 0
    /\ sinkErr' = 0
    /\ pc' = "w_loop"
    /\ UNCHANGED <<input, stage, caller, e, width, current_length, buf, v, owned,
                   res, buf0, pre, fed, used>>

\* One write call on the sink.  The sink accepts the bytes, or fails having
\* taken any proper prefix of them; `?` returns the error at once.
WriteCall(bytes, nextPc, propagate) ==
    /\ writes' = writes + 1
    /\ \/ /\ sink' = sink \o bytes
          /\ pc' = nextPc
          /\ UNCHANGED <<sinkErr, res, stage>>
       \/ /\ \E k \in 0..(IF Len(bytes) = 0 THEN 0 ELSE Len(bytes) - 1) :
                sink' = sink \o SubSeq(bytes, 1, k)
          /\ sinkErr' = IF sinkErr = 0 THEN writes + 1 ELSE sinkErr
          /\ IF propagate
             THEN /\ res' = [res EXCEPT !.writer = Err(writes + 1)]
                  /\ pc' = "idle"
                  /\ stage' = "end"
             ELSE pc' = nextPc /\ UNCHANGED <<res, stage>>

\* Lines 148-157.
WrLoopHead ==
    /\ pc = "w_loop"
    /\ IF p = Len(text)
       THEN pc' = "w_tail" /\ UNCHANGED <<e, width>>
       ELSE Classify("w_flush", "w_adv")
    /\ UNCHANGED <<input, stage, caller, text, p, start, current_length, buf, v,
                   owned, entities, Sink, res, buf0, pre, fed, used>>

\* Mutant: the result of the write call is dropped instead of returned.
WrFlush_IgnoresError ==
    /\ pc = "w_flush"
    /\ IF SliceOk(text, start, p)
       THEN WriteCall(Slice(text, start, p), "w_start", FALSE)
       ELSE pc' = "panic" /\ UNCHANGED <<Sink, res, stage>>
    /\ UNCHANGED <<input, Local, buf, v, owned, entities, buf0, pre, fed, used>>

\* Line 158.
WrFlush ==
    /\ pc = "w_flush"
    /\ IF SliceOk(text, start, p)
       THEN WriteCall(Slice(text, start, p), "w_start", TRUE)
       ELSE pc' = "panic" /\ UNCHANGED <<Sink, res, stage>>
    /\ UNCHANGED <<input, Local, buf, v, owned, entities, buf0, pre, fed, used>>

\* Mutant: the next run begins one byte too far.
WrSetStart_OneTooFar ==
    /\ pc = "w_start"
    /\ start' = p + 2
    /\ pc' = "w_entity"
    /\ UNCHANGED <<input, stage, caller, text, p, e, width, current_length, buf, v,
                   owned, entities, Sink, res, Caller, used>>

\* Line 159.
WrSetStart ==
    /\ pc = "w_start"
    /\ start' = p + 1
    /\ pc' = "w_entity"
    /\ UNCHANGED <<input, stage, caller, text, p, e, width, current_length, buf, v,
                   owned, entities, Sink, res, Caller, used>>

\* Line 160.
WrEntity ==
    /\ pc = "w_entity"
    /\ entities' = entities + 1
    /\ WriteCall(html_entity(e), "w_adv", TRUE)
    /\ UNCHANGED <<input, Local, buf, v, owned, buf0, pre, fed, used>>

\* Line 163.
WrAdvance ==
    /\ pc = "w_adv"
    /\ p' = p + width
    /\ pc' = "w_loop"
    /\ UNCHANGED <<input, stage, caller, text, start, e, width, current_length, buf, v,
                   owned, entities, Sink, res, Caller, used>>

\* Line 166: the result of the last write call is the function's result.
WrTail ==
    /\ pc = "w_tail"
    /\ IF SliceOk(text, start, p)
       THEN /\ WriteCall(Slice(text, start, p), "w_ret", TRUE)
            /\ UNCHANGED <<input, Local, buf, v, owned, entities, buf0, pre, fed, used>>
       ELSE /\ pc' = "panic"
            /\ UNCHANGED <<input, Local, buf, v, owned, entities, buf0, pre, fed, used,
                           Sink, res, stage>>

\* Line 166, on success: Ok(()).
WrReturn ==
    /\ pc = "w_ret"
    /\ res' = [res EXCEPT !.writer = Ret("Ok", <<>>)]
    /\ pc' = "idle"
    /\ stage' = "end"
    /\ UNCHANGED <<input, Local, buf, v, owned, entities, Sink, buf0, pre, fed, used>>

----------------------------------------------------------------------------
Next ==
    \/ NewRound
    \/ CallCow \/ CowLoopHead \/ CowAdvance \/ CowAlloc \/ CowEntity \/ CowCall
    \/ CowReturn
    \/ CallVec \/ CallString \/ VecLoopHead \/ VecFlush \/ VecSetStart \/ VecEntity
    \/ VecAdvance \/ VecTail \/ VecReturn
    \/ CallWriter \/ WrLoopHead \/ WrFlush \/ WrSetStart \/ WrEntity \/ WrAdvance
    \/ WrTail \/ WrReturn

Spec == Init /\ [][Next]_vars

----------------------------------------------------------------------------
(* The escaped form, character by character, as the documentation states it *)

IsCont(b) == b >= 128 /\ b <= 191

\* The index of the last byte of the character that begins at index i.
RECURSIVE CharEnd(_, _)
CharEnd(s, i) ==
    IF i + 1 <= Len(s) /\ IsCont(s[i + 1]) THEN CharEnd(s, i + 1) ELSE i

\* "0123456789ABCDEF"
HexDigits == <<48, 49, 50, 51, 52, 53, 54, 55, 56, 57, 65, 66, 67, 68, 69, 70>>

LettersAndDigits == (48..57) \cup (65..90) \cup (97..122)

\* The piece of the output that stands for the character c.
Piece(c) ==
    IF Len(c) > 1 \/ c[1] \in LettersAndDigits THEN c
    ELSE CASE c[1] = 38 -> <<38, 97, 109, 112, 59>>            \* &amp;
           [] c[1] = 60 -> <<38, 108, 116, 59>>                \* &lt;
           [] c[1] = 62 -> <<38, 103, 116, 59>>                \* &gt;
           [] c[1] = 34 -> <<38, 113, 117, 111, 116, 59>>      \* &quot;
           [] OTHER -> <<38, 35, 120, HexDigits[(c[1] \div 16) + 1],
                         HexDigits[(c[1] % 16) + 1], 59>>      \* &#xHH;

RECURSIVE EscapedFrom(_, _)
EscapedFrom(s, i) ==
    IF i > Len(s) THEN <<>>
    ELSE LET j == CharEnd(s, i)
         IN  Piece(SubSeq(s, i, j)) \o EscapedFrom(s, j + 1)

Escaped(s) == EscapedFrom(s, 1)

CowDone == res.cow.tag # "none"
VecDone == res.vec.tag # "none"
StringDone == res.string.tag # "none"
WriterOk == res.writer.tag = "Ok"

VecPcs == {"v_loop", "v_flush", "v_start", "v_entity", "v_adv", "v_tail", "v_ret"}
WrPcs == {"w_loop", "w_flush", "w_start", "w_entity", "w_adv", "w_tail", "w_ret"}
CowPcs == {"c_loop", "c_adv", "c_alloc", "c_entity", "c_call", "c_ret"}

\* An append to the caller's buffer is executing.
Appending == pc \in VecPcs /\ caller # "cow"

----------------------------------------------------------------------------
\* C1: encode_unquoted_attribute returns (and encode_unquoted_attribute_to_vec
\* appends) exactly the concatenation, in input order, of one piece per input
\* character: the character itself when it is multi-byte or an ASCII letter or
\* digit, the named reference for & < > ", and &#xHH; (two uppercase hex
\* digits) for every other byte below 128; 0x09, 0x20, 0x25 and 0x7F give
\* &#x09; &#x20; &#x25; &#x7F;.
C1_OutputIsPieces ==
    /\ CowDone => res.cow.bytes = Escaped(input)
    /\ VecDone => res.vec.bytes = Escaped(input)
    /\ CowDone /\ input = <<9>> => res.cow.bytes = <<38, 35, 120, 48, 57, 59>>
    /\ CowDone /\ input = <<32>> => res.cow.bytes = <<38, 35, 120, 50, 48, 59>>
    /\ CowDone /\ input = <<37>> => res.cow.bytes = <<38, 35, 120, 50, 53, 59>>
    /\ CowDone /\ input = <<127>> => res.cow.bytes = <<38, 35, 120, 55, 70, 59>>

C1_Witness ==
    /\ input = <<120, 240, 159, 152, 128, 57, 62, 195, 169>>
    /\ res.cow.tag = "Owned"
    /\ res.vec.tag = "slice"

\* C2: for an input of ASCII letters, ASCII digits and multi-byte characters
\* only (the empty input included), encode_unquoted_attribute returns the
\* input itself, borrowed: it creates no buffer and writes no entity.
AllSafe(s) == \A i \in 1..Len(s) : s[i] >= 128 \/ s[i] \in LettersAndDigits

C2_BorrowedWhenClean ==
    AllSafe(input) =>
        /\ stage = "cow" => ~owned /\ entities = 0 /\ v = <<>>
        /\ CowDone => res.cow = Ret("Borrowed", input) /\ ~owned

C2_Witness ==
    /\ res.cow.tag = "Borrowed"
    /\ \E i \in 1..Len(input) : input[i] >= 128
    /\ \E i \in 1..Len(input) : input[i] \in LettersAndDigits

C2_WitnessEmpty == res.cow.tag = "Borrowed" /\ input = <<>> /\ stage = "vec"

\* C3: encode_unquoted_attribute_to_vec only appends: during a call the bytes
\* the buffer held at entry stay in place; after it the buffer is those bytes
\* followed by the escaped form of the text, and the returned slice is exactly
\* what follows them; after any sequence of calls the buffer is its initial
\* content followed by the escaped forms of the texts, in call order.
RECURSIVE EscapedAll(_)
EscapedAll(ts) ==
    IF ts = <<>> THEN <<>> ELSE Escaped(Head(ts)) \o EscapedAll(Tail(ts))

LastAppend == IF StringDone THEN res.string ELSE res.vec

C3_OnlyAppends ==
    /\ Appending =>
          /\ current_length = Len(pre)
          /\ Len(buf) >= Len(pre)
          /\ SubSeq(buf, 1, Len(pre)) = pre
    /\ ~Appending =>
          /\ buf = buf0 \o EscapedAll(fed)
          /\ LastAppend.tag # "none" =>
                /\ buf = pre \o Escaped(input)
                /\ LastAppend.bytes = SubSeq(buf, Len(pre) + 1, Len(buf))

C3_Witness ==
    /\ ~Appending
    /\ buf0 # <<>>
    /\ Len(fed) >= 3
    /\ fed[1] # fed[3]
    /\ Len(buf) > Len(buf0) + 6
    /\ res.vec.tag = "slice"

\* C4: in encode_unquoted_attribute_to_writer, when the sink fails a write
\* call the function returns that error and issues no write call after it.
C4_StopsAtFirstError ==
    sinkErr # 0 =>
        /\ writes = sinkErr
        /\ pc \notin WrPcs
        /\ res.writer = Err(sinkErr)

C4_Witness ==
    /\ res.writer.tag = "Err"
    /\ res.writer.err = 3
    /\ sink # <<>>

\* C5: unescaping the output of encode_unquoted_attribute (the four named
\* references and &#xHH; back to their bytes) gives the input back, also for
\* an input that itself contains the text of a reference.
HexVal(d) ==
    IF d >= 48 /\ d <= 57 THEN d - 48
    ELSE IF d >= 65 /\ d <= 70 THEN d - 55
    ELSE IF d >= 97 /\ d <= 102 THEN d - 87
    ELSE -1

StartsWith(s, i, pat) ==
    /\ i + Len(pat) - 1 <= Len(s)
    /\ SubSeq(s, i, i + Len(pat) - 1) = pat

RECURSIVE UnescapeFrom(_, _)
UnescapeFrom(s, i) ==
    IF i > Len(s) THEN <<>>
    ELSE IF StartsWith(s, i, <<38, 97, 109, 112, 59>>)
         THEN <<38>> \o UnescapeFrom(s, i + 5)
    ELSE IF StartsWith(s, i, <<38, 108, 116, 59>>)
         THEN <<60>> \o UnescapeFrom(s, i + 4)
    ELSE IF StartsWith(s, i, <<38, 103, 116, 59>>)
         THEN <<62>> \o UnescapeFrom(s, i + 4)
    ELSE IF StartsWith(s, i, <<38, 113, 117, 111, 116, 59>>)
         THEN <<34>> \o UnescapeFrom(s, i + 6)
    ELSE IF /\ StartsWith(s, i, <<38, 35, 120>>)
            /\ i + 5 <= Len(s)
            /\ HexVal(s[i + 3]) >= 0
            /\ HexVal(s[i + 4]) >= 0
            /\ s[i + 5] = 59
         THEN <<16 * HexVal(s[i + 3]) + HexVal(s[i + 4])>> \o UnescapeFrom(s, i + 6)
    ELSE <<s[i]>> \o UnescapeFrom(s, i + 1)

Unescape(s) == UnescapeFrom(s, 1)

C5_RoundTrip == CowDone => Unescape(res.cow.bytes) = input

C5_Witness ==
    /\ input = <<38, 35, 120, 50, 48, 59>>
    /\ res.cow.tag = "Owned"
    /\ Len(res.cow.bytes) > 2 * Len(input)

\* C6: the three variants produce the same bytes: what
\* encode_unquoted_attribute returns is the slice
\* encode_unquoted_attribute_to_vec appends, which is the concatenation of
\* what encode_unquoted_attribute_to_writer writes to a sink that never fails.
C6_VariantsAgree ==
    /\ CowDone /\ VecDone => res.cow.bytes = res.vec.bytes
    /\ VecDone /\ StringDone => res.string.bytes = res.vec.bytes
    /\ VecDone /\ WriterOk => sink = res.vec.bytes

C6_Witness ==
    /\ input = <<195, 169, 60, 240, 159, 152, 128, 34>>
    /\ res.cow.tag = "Owned"
    /\ VecDone
    /\ WriterOk
    /\ writes = 5

\* C7: every byte sequence the code reinterprets as text without validating
\* it is well-formed: the rest of the text handed on after the first escaped
\* byte, the buffer encode_unquoted_attribute returns, and the String (and
\* the returned str) after encode_unquoted_attribute_to_string.
C7_WellFormed ==
    /\ pc \in VecPcs /\ caller = "cow" => IsValidUtf8(text)
    /\ pc = "c_ret" => IsValidUtf8(v)
    /\ res.cow.tag = "Owned" => IsValidUtf8(res.cow.bytes)
    /\ StringDone => IsValidUtf8(buf) /\ IsValidUtf8(res.string.bytes)

C7_Witness ==
    /\ input = <<226, 130, 172, 32, 226, 130, 172>>
    /\ res.cow.tag = "Owned"
    /\ StringDone
    /\ Len(res.string.bytes) = 12

C7_WitnessRest ==
    /\ pc = "v_loop"
    /\ caller = "cow"
    /\ text = <<240, 159, 152, 128, 34>>

\* C8 as claimed: in the scan loops of encode_unquoted_attribute_to_vec and
\* encode_unquoted_attribute_to_writer, start <= p <= length at all times,
\* the step that sets start to p + 1 before p advances included.
C8_AtAllTimes ==
    pc \in VecPcs \cup WrPcs => start <= p /\ p <= Len(text)

\* C8 as amended: start <= p <= length holds whenever the loop tests p, when
\* the pending run is flushed and at the final flush; from `start = p + 1`
\* until p advances, start = p + 1 <= length instead.
C8_Cursor ==
    /\ pc \in {"v_loop", "v_flush", "v_start", "v_tail", "v_ret",
               "w_loop", "w_flush", "w_start", "w_tail", "w_ret"} =>
          start <= p /\ p <= Len(text)
    /\ pc \in {"v_entity", "w_entity"} => start = p + 1 /\ start <= Len(text)
    /\ pc \in {"v_adv", "w_adv"} =>
          /\ start <= p + width
          /\ p + width <= Len(text)
          /\ start > p => start = p + 1 /\ width = 1

C8_Witness == pc = "w_entity" /\ start = p + 1 /\ p > 0 /\ p + 1 < Len(text)


\* The code runs sequentially and no statement of it blocks for ever: a call
\* that has begun keeps taking steps.
FairSpec == Init /\ [][Next]_vars /\ WF_vars(Next)

\* C9: the algorithm is total over valid inputs: no index or slice range is
\* out of bounds and the width classifier is only given leading bytes; each
\* time a loop tests p, p is the first byte of a character or the length;
\* each iteration advances p by the width (1 to 4) of the character at p and
\* never past the length; the loops end with p equal to the length, and
\* every call returns.
LoopHeads == {"c_loop", "v_loop", "w_loop"}
InIteration ==
    {"c_adv", "c_alloc", "c_entity", "c_call",
     "v_flush", "v_start", "v_entity", "v_adv",
     "w_flush", "w_start", "w_entity", "w_adv"}
Boundary(s, q) == q = Len(s) \/ (q < Len(s) /\ ~IsCont(s[q + 1]))

C9_Bounds ==
    /\ pc \notin {"panic", "ub"}
    /\ pc \in LoopHeads => p <= Len(text) /\ Boundary(text, p)
    /\ pc \in InIteration =>
          /\ p < Len(text)
          /\ e = text[p + 1]
          /\ width \in 1..4
          /\ width = CharEnd(text, p + 1) - p
          /\ p + width <= Len(text)
    /\ pc \in {"v_tail", "v_ret", "w_tail", "w_ret"} => p = Len(text)

C9_Advance ==
    pc \in {"c_adv", "v_adv", "w_adv"} =>
        /\ p' = p + width
        /\ p' > p
        /\ p' <= Len(text)
        /\ pc' \in LoopHeads

C9_Total ==
    /\ []C9_Bounds
    /\ [][C9_Advance]_vars
    /\ (pc # "idle") ~> (pc = "idle")

C9_Witness ==
    /\ pc = "v_tail"
    /\ caller = "none"
    /\ p = Len(text)
    /\ text = <<120, 240, 159, 152, 128, 57, 62, 195, 169>>

\* C10: the output of each variant holds no byte below 128 other than ASCII
\* letters and digits and the bytes of the entities the escaper wrote: every
\* & begins one of &amp; &lt; &gt; &quot; &#xHH;, every # and ; lies in one;
\* no whitespace, quote, <, >, = or backtick appears literally.
UpperHex == (48..57) \cup (65..70)

EntityLen(s, i) ==
    IF StartsWith(s, i, <<38, 97, 109, 112, 59>>) THEN 5
    ELSE IF StartsWith(s, i, <<38, 108, 116, 59>>) THEN 4
    ELSE IF StartsWith(s, i, <<38, 103, 116, 59>>) THEN 4
    ELSE IF StartsWith(s, i, <<38, 113, 117, 111, 116, 59>>) THEN 6
    ELSE IF /\ StartsWith(s, i, <<38, 35, 120>>)
            /\ i + 5 <= Len(s)
            /\ s[i + 3] \in UpperHex
            /\ s[i + 4] \in UpperHex
            /\ s[i + 5] = 59
         THEN 6
    ELSE 0

RECURSIVE SafeFrom(_, _)
SafeFrom(s, i) ==
    IF i > Len(s) THEN TRUE
    ELSE IF s[i] >= 128 \/ s[i] \in LettersAndDigits THEN SafeFrom(s, i + 1)
    ELSE EntityLen(s, i) > 0 /\ SafeFrom(s, i + EntityLen(s, i))

SafeOutput(s) ==
    /\ SafeFrom(s, 1)
    /\ \A i \in 1..Len(s) :
          s[i] >= 128 \/ s[i] \in LettersAndDigits \cup {38, 35, 59}

C10_OutputSafe ==
    /\ CowDone => SafeOutput(res.cow.bytes)
    /\ VecDone => SafeOutput(res.vec.bytes)
    /\ StringDone => SafeOutput(res.string.bytes)
    /\ WriterOk => SafeOutput(sink)

C10_Witness ==
    /\ input = <<38, 97, 109, 112, 59>>
    /\ WriterOk
    /\ CowDone
    /\ VecDone
    /\ Len(sink) = 14

=============================================================================
